---- MODULE Spec2Model ----
(***************************************************************************)
(* Model of the benchmark execution engine of solana-rpc-checker           *)
(* (src/src/main.rs): the seven probes, the per-probe iteration loop       *)
(* (run_test and its inlined copies in main), the sequential and parallel  *)
(* schedules of main, and the collection of the Session (all_results).     *)
(*                                                                         *)
(* The remote endpoint is the environment: every network call returns a    *)
(* result (Ok or Err) after a latency in milliseconds.  A run may deviate   *)
(* from the nominal endpoint (every call Ok after 1 ms, health body "ok")  *)
(* at most MaxDeviations times; a panic inside a probe invocation is one   *)
(* deviation too.                                                          *)
(***************************************************************************)
EXTENDS Integers, Sequences, FiniteSets, TLC

\* ------------------------------------------------------------------ bounds
MaxIter == 2
MaxLatency == 2
MaxDeviations == 1

\* ------------------------------------------------------------ data model
None == <<>>
Some(x) == <<x>>

\* struct TestResult
TestResult(name, success, duration_ms, error) ==
    [name |-> name, success |-> success, duration_ms |-> duration_ms, error |-> error]

\* the registry `tests` of main, in order; getHealth is run apart from it
tests ==
    << "getLatestBlockhash", "getSlot", "getBalance", "getAccountInfo",
       "getBlock", "getTokenAccountsByOwner" >>

HealthUnit == Len(tests) + 1
Units == 1..HealthUnit
ProbeName(u) == IF u = HealthUnit THEN "getHealth" ELSE tests[u]

\* ------------------------------------------------------ the environment
Latencies == 1..MaxLatency
RpcErrors == {"RPC request error"}

\* the result of one network call: Ok or Err(e), after ms milliseconds
CallOk(ms) == [ok |-> TRUE, ms |-> ms, e |-> ""]
CallErr(ms, e) == [ok |-> FALSE, ms |-> ms, e |-> e]
CallResults == {CallOk(ms) : ms \in Latencies} \cup {CallErr(ms, e) : ms \in Latencies, e \in RpcErrors}

\* the response body of the health call: the literal marker, another JSON
\* payload, or bytes that are not JSON
Bodies == {"ok", "other", "notjson"}

CallCost(c) == (IF c.ok THEN 0 ELSE 1) + (IF c.ms = 1 THEN 0 ELSE 1)

\* What the endpoint answers to one invocation of probe u: one call result per
\* call the probe issues, and for getHealth the body of an answered request.
Responses(u) ==
    IF u = HealthUnit
    THEN {[calls |-> <<c>>, body |-> b] : c \in {x \in CallResults : ~x.ok}, b \in {""}}
         \cup {[calls |-> <<c>>, body |-> b] : c \in {x \in CallResults : x.ok}, b \in Bodies}
    ELSE IF ProbeName(u) = "getBlock"
    THEN {[calls |-> <<c>>, body |-> ""] : c \in {x \in CallResults : ~x.ok}}
         \cup {[calls |-> <<c, d>>, body |-> ""] : c \in {x \in CallResults : x.ok}, d \in CallResults}
    ELSE {[calls |-> <<c>>, body |-> ""] : c \in CallResults}

RECURSIVE SumCost(_)
SumCost(cs) == IF cs = <<>> THEN 0 ELSE CallCost(Head(cs)) + SumCost(Tail(cs))

Cost(r) == SumCost(r.calls) + (IF r.body \in {"", "ok"} THEN 0 ELSE 1)

\* the answers the endpoint may still give to probe u after d deviations
Answers == [u \in Units |-> [d \in 0..MaxDeviations |-> {r \in Responses(u) : d + Cost(r) <= MaxDeviations}]]

\* ------------------------------------------------------------ the probes
\* A probe returns Result<TestResult>: ret = "Ok" with val a TestResult, or
\* ret = "Err" with val the error.  The other fields record what the
\* invocation did: the calls it issued, whether its timer was started, and
\* the time from the start of the timer to the probe's return.
ProbeReturn(ret, val, issued, timed, elapsed) ==
    [ret |-> ret, val |-> val, issued |-> issued, timed |-> timed, elapsed |-> elapsed]

\* Instants are milliseconds counted from the entry into the probe.
Entry == 0

\* the body shared by the probes that time a single client call
TimedCall(name, method, r) ==
    LET start == Entry
        result == r.calls[1]
        end == start + result.ms
        duration == end - start
    IN  IF result.ok
        THEN ProbeReturn("Ok", TestResult(name, TRUE, duration, None),
                         <<method>>, TRUE, end - start)
        ELSE ProbeReturn("Ok", TestResult(name, FALSE, duration, Some(<<result.e>>)),
                         <<method>>, TRUE, end - start)

test_get_latest_blockhash(r) == TimedCall("getLatestBlockhash", "getLatestBlockhash", r)
test_get_slot(r) == TimedCall("getSlot", "getSlot", r)
test_get_balance(r) == TimedCall("getBalance", "getBalance", r)
test_get_account_info(r) == TimedCall("getAccountInfo", "getAccountInfo", r)
test_get_token_accounts_by_owner(r) ==
    TimedCall("getTokenAccountsByOwner", "getTokenAccountsByOwner", r)

\* a block probe whose timer is started before the slot sub-call
test_get_block_timed_from_entry(r) ==
    LET start == Entry
        slot_result == r.calls[1]
        after_slot == Entry + slot_result.ms
    IN  IF ~slot_result.ok
        THEN ProbeReturn("Ok",
                 TestResult("getBlock", FALSE, 0, Some(<<"Failed to get slot: ", slot_result.e>>)),
                 <<"getSlot">>, TRUE, after_slot - start)
        ELSE LET result == r.calls[2]
                 end == after_slot + result.ms
                 duration == end - start
             IN  IF result.ok
                 THEN ProbeReturn("Ok", TestResult("getBlock", TRUE, duration, None),
                                  <<"getSlot", "getBlock">>, TRUE, end - start)
                 ELSE ProbeReturn("Ok", TestResult("getBlock", FALSE, duration, Some(<<result.e>>)),
                                  <<"getSlot", "getBlock">>, TRUE, end - start)

test_get_block(r) ==
    LET slot_result == r.calls[1]
        after_slot == Entry + slot_result.ms
    IN  IF ~slot_result.ok
        THEN ProbeReturn("Ok",
                 TestResult("getBlock", FALSE, 0, Some(<<"Failed to get slot: ", slot_result.e>>)),
                 <<"getSlot">>, FALSE, 0)
        ELSE LET start == after_slot
                 result == r.calls[2]
                 end == after_slot + result.ms
                 duration == end - start
             IN  IF result.ok
                 THEN ProbeReturn("Ok", TestResult("getBlock", TRUE, duration, None),
                                  <<"getSlot", "getBlock">>, TRUE, end - start)
                 ELSE ProbeReturn("Ok", TestResult("getBlock", FALSE, duration, Some(<<result.e>>)),
                                  <<"getSlot", "getBlock">>, TRUE, end - start)

test_get_health(r) ==
    LET start == Entry
        response == r.calls[1]
        end == start + response.ms
        duration == end - start
    IN  IF response.ok
        THEN IF r.body = "notjson"
             THEN ProbeReturn("Err", "error decoding response body", <<"getHealth">>, TRUE, end - start)
             ELSE IF r.body = "ok"
             THEN ProbeReturn("Ok", TestResult("getHealth", TRUE, duration, None),
                              <<"getHealth">>, TRUE, end - start)
             ELSE ProbeReturn("Ok",
                      TestResult("getHealth", FALSE, duration, Some(<<"Unexpected response: ", r.body>>)),
                      <<"getHealth">>, TRUE, end - start)
        ELSE ProbeReturn("Ok", TestResult("getHealth", FALSE, duration, Some(<<response.e>>)),
                         <<"getHealth">>, TRUE, end - start)

\* test_fn(client) for the unit's probe
test_fn(u, r) ==
    CASE ProbeName(u) = "getLatestBlockhash" -> test_get_latest_blockhash(r)
      [] ProbeName(u) = "getSlot" -> test_get_slot(r)
      [] ProbeName(u) = "getBalance" -> test_get_balance(r)
      [] ProbeName(u) = "getAccountInfo" -> test_get_account_info(r)
      [] ProbeName(u) = "getBlock" -> test_get_block(r)
      [] ProbeName(u) = "getTokenAccountsByOwner" -> test_get_token_accounts_by_owner(r)
      [] OTHER -> test_get_health(r)

\* a conversion that drops the error of the probe
MatchResultNoError(test_name, ret) ==
    IF ret.ret = "Ok"
    THEN ret.val
    ELSE TestResult(test_name, FALSE, 0, None)

\* the match on the probe's return in every iteration loop
MatchResult(test_name, ret) ==
    IF ret.ret = "Ok"
    THEN ret.val
    ELSE TestResult(test_name, FALSE, 0, Some(<<ret.val>>))

\* ------------------------------------------------------------------ state
VARIABLES
    args,         \* the parsed Args: iterations, parallel, progress
    pc,           \* where main is
    cur,          \* sequential mode: the battery main is running
    units,        \* per probe: the state of its iteration loop
    all_results,  \* the Session
    pb,           \* position of the progress bar
    history,      \* per probe: what each completed invocation did (for the properties)
    deviations,   \* deviations of the endpoint used so far
    reports,      \* calls of print_test_summary made so far
    exit_code,    \* the exit status of the process, once it has ended
    summary,      \* what print_test_summary computed from the Session
    block_query   \* the slot arithmetic of the block probe: current slot, slot asked for

\* what the scheduling steps leave alone
output == <<reports, exit_code, summary, block_query>>

vars == <<args, pc, cur, units, all_results, pb, history, deviations, output>>

\* a loop that has not been entered yet
NewUnit == [st |-> "pending", i |-> 0, flying |-> <<>>, results |-> <<>>]

Init ==
    /\ args \in [iterations : 0..MaxIter, parallel : BOOLEAN, progress : BOOLEAN]
    /\ pc = IF args.parallel THEN "spawning" ELSE "sequential"
    /\ cur = 1
    /\ units = [u \in Units |-> NewUnit]
    /\ all_results = <<>>
    /\ pb = 0
    /\ history = [u \in Units |-> <<>>]
    /\ deviations = 0
    /\ reports = 0
    /\ exit_code = None
    /\ summary = None
    /\ block_query = None

\* a loop that dispatches its next invocation without awaiting the last
AwaitedNever(unit) == TRUE

\* `match test_fn(client).await`: the loop is suspended while an invocation is
\* in flight, so the next one starts only when none is.
Awaited(unit) == unit.flying = <<>>

\* a loop left before its last iteration
LoopOverEarly(unit) == TRUE

\* `for i in 0..iterations` has run out
LoopOver(unit) == unit.i >= args.iterations

\* the paths without a progress bar giving an escaped error the time that
\* had elapsed instead of 0
InvocationInlineDiffers(u, k, r) ==
    LET ret == test_fn(u, r)
        outcome == MatchResult(ProbeName(u), ret)
    IN  [iter |-> k, resp |-> r, ret |-> ret,
         outcome |-> IF ~args.progress /\ ret.ret = "Err"
                     THEN [outcome EXCEPT !.duration_ms = ret.elapsed + 1]
                     ELSE outcome]

\* one completed invocation of probe u at iteration k, answered by r
Invocation(u, k, r) ==
    LET ret == test_fn(u, r)
    IN  [iter |-> k, resp |-> r, ret |-> ret, outcome |-> MatchResult(ProbeName(u), ret)]

\* a bar that advances by two
IncTwice(p) == IF args.progress THEN p + 2 ELSE p

\* pb.inc(1), when there is a progress bar
Inc(p) == IF args.progress THEN p + 1 ELSE p

\* ------------------------------------------------------- parallel mode
\* The units share nothing but the progress bar, and main reads their lists
\* only through join_all: one iteration of a unit's loop is one step here.

\* tokio::spawn of the next unit, in registry order, getHealth last
Spawn ==
    /\ pc = "spawning"
    /\ \E u \in Units :
        /\ units[u].st = "pending"
        /\ \A v \in Units : v < u => units[v].st # "pending"
        /\ units' = [units EXCEPT ![u].st = "spawned"]
        /\ pc' = IF u = HealthUnit THEN "joining" ELSE "spawning"
    /\ UNCHANGED <<args, cur, all_results, pb, history, deviations, output>>

\* one iteration of a unit: the probe is invoked and returns, the unit pushes
\* the Outcome, sleeps and ticks the bar
ParIterate(u) ==
    /\ args.parallel
    /\ units[u].st = "spawned"
    /\ units[u].i < args.iterations
    /\ \E r \in Answers[u][deviations] :
        /\ LET inv == Invocation(u, units[u].i, r)
           IN  /\ units' = [units EXCEPT ![u] =
                    [@ EXCEPT !.i = @ + 1, !.results = Append(@, inv.outcome)]]
               /\ history' = [history EXCEPT ![u] = Append(@, inv)]
        /\ deviations' = deviations + Cost(r)
    /\ pb' = Inc(pb)
    /\ UNCHANGED <<args, pc, cur, all_results, output>>

\* the invocation of an iteration panics: the task unwinds, its list is
\* dropped, and its JoinHandle yields a JoinError
ParPanic(u) ==
    /\ args.parallel
    /\ units[u].st = "spawned"
    /\ units[u].i < args.iterations
    /\ deviations < MaxDeviations
    /\ deviations' = deviations + 1
    /\ units' = [units EXCEPT ![u] = [@ EXCEPT !.st = "panicked", !.results = <<>>]]
    /\ UNCHANGED <<args, pc, cur, all_results, pb, history, output>>

\* the unit's task has ended: its loop is over, or it panicked
Returned(u) == units[u].st = "spawned" /\ LoopOver(units[u])
Resolved(u) == Returned(u) \/ units[u].st = "panicked"

\* a join that leaves out the handle of the getHealth unit
JoinReadyRegistryOnly == \A u \in DOMAIN tests : Resolved(u)

\* join_all(futures).await resumes when every JoinHandle has resolved
JoinReady == \A u \in Units : Resolved(u)

\* what join_all yields, in the order the futures were pushed
JoinResults ==
    [u \in Units |->
        IF Returned(u)
        THEN [ok |-> TRUE, val |-> units[u].results]
        ELSE [ok |-> FALSE, val |-> "JoinError"]]

\* a collection that gives up at the first JoinError
RECURSIVE CollectUntilErr(_, _)
CollectUntilErr(acc, rs) ==
    IF rs = <<>> THEN acc
    ELSE IF Head(rs).ok
         THEN CollectUntilErr(acc \o Head(rs).val, Tail(rs))
         ELSE acc

\* a collection that puts each list in front of what it has
RECURSIVE CollectInFront(_, _)
CollectInFront(acc, rs) ==
    IF rs = <<>> THEN acc
    ELSE IF Head(rs).ok
         THEN CollectInFront(Head(rs).val \o acc, Tail(rs))
         ELSE CollectInFront(acc, Tail(rs))

\* `for result in results { match result { Ok => extend, Err => eprintln! } }`
RECURSIVE Collect(_, _)
Collect(acc, rs) ==
    IF rs = <<>> THEN acc
    ELSE IF Head(rs).ok
         THEN Collect(acc \o Head(rs).val, Tail(rs))
         ELSE Collect(acc, Tail(rs))

Join ==
    /\ pc = "joining"
    /\ JoinReady
    /\ all_results' = Collect(all_results, JoinResults)
    /\ pc' = "summary"
    /\ UNCHANGED <<args, cur, units, pb, history, deviations, output>>

\* ----------------------------------------------------- sequential mode
\* run_test keeps a list of its own, which main appends when the battery
\* returns; the other sequential loops push into all_results directly
OwnList(u) == args.progress /\ u # HealthUnit

SeqStart ==
    /\ pc = "sequential"
    /\ units[cur].i < args.iterations
    /\ Awaited(units[cur])
    /\ units' = [units EXCEPT ![cur] = [@ EXCEPT !.st = "running", !.flying = Append(@, units[cur].i)]]
    /\ UNCHANGED <<args, pc, cur, all_results, pb, history, deviations, output>>

SeqFinish ==
    /\ pc = "sequential"
    /\ units[cur].flying # <<>>
    /\ \E r \in Answers[cur][deviations] :
        /\ LET inv == Invocation(cur, Head(units[cur].flying), r)
           IN  /\ units' = [units EXCEPT ![cur] =
                    [@ EXCEPT !.i = @ + 1,
                              !.flying = Tail(@),
                              !.results = IF OwnList(cur) THEN Append(@, inv.outcome) ELSE @]]
               /\ all_results' = IF OwnList(cur) THEN all_results ELSE Append(all_results, inv.outcome)
               /\ history' = [history EXCEPT ![cur] = Append(@, inv)]
        /\ deviations' = deviations + Cost(r)
    /\ pb' = Inc(pb)
    /\ UNCHANGED <<args, pc, cur, output>>

\* the battery is over: main takes its list and moves to the next probe, and
\* after getHealth to the summary
SeqAdvance ==
    /\ pc = "sequential"
    /\ LoopOver(units[cur])
    /\ Awaited(units[cur])
    /\ all_results' = IF OwnList(cur) THEN all_results \o units[cur].results ELSE all_results
    /\ units' = [units EXCEPT ![cur].st = "done"]
    /\ IF cur = HealthUnit
       THEN pc' = "summary" /\ cur' = cur
       ELSE pc' = pc /\ cur' = cur + 1
    /\ UNCHANGED <<args, pb, history, deviations, output>>

\* the exit status of a Rust process whose main thread panicked
PanicExit == 101

\* the invocation in flight panics in main's own task: the process dies
SeqPanic ==
    /\ pc = "sequential"
    /\ units[cur].flying # <<>>
    /\ deviations < MaxDeviations
    /\ deviations' = deviations + 1
    /\ pc' = "aborted"
    /\ exit_code' = Some(PanicExit)
    /\ units' = [units EXCEPT ![cur] = [@ EXCEPT !.st = "panicked", !.flying = <<>>]]
    /\ UNCHANGED <<args, cur, all_results, pb, history, reports, summary, block_query>>

\* ------------------------------------------------------------ the report
\* a main that fails when a probe failed
main_exit_on_failure(results) ==
    IF \E k \in DOMAIN results : ~results[k].success THEN 1 ELSE 0

\* main returns Ok(()) whatever the Session holds: exit status 0
main_exit(results) == 0

\* print_test_summary(&all_results); Ok(()).  What the report holds is
\* print_test_summary below, explored by SpecAgg.
Report ==
    /\ pc = "summary"
    /\ pc' = "done"
    /\ reports' = reports + 1
    /\ exit_code' = Some(main_exit(all_results))
    /\ UNCHANGED <<args, cur, units, all_results, pb, history, deviations, summary, block_query>>

Next ==
    \/ Spawn
    \/ \E u \in Units : ParIterate(u)
    \/ \E u \in Units : ParPanic(u)
    \/ Join
    \/ SeqStart
    \/ SeqFinish
    \/ SeqAdvance
    \/ SeqPanic
    \/ Report

Spec == Init /\ [][Next]_vars

\* the runs of parallel mode alone
InitPar == Init /\ args.parallel

NextPar ==
    \/ Spawn
    \/ \E u \in Units : ParIterate(u)
    \/ \E u \in Units : ParPanic(u)
    \/ Join
    \/ Report

SpecPar == InitPar /\ [][NextPar]_vars

\* the runs of sequential mode alone
InitSeq == Init /\ ~args.parallel

NextSeq ==
    \/ SeqStart
    \/ SeqFinish
    \/ SeqAdvance
    \/ SeqPanic
    \/ Report

SpecSeq == InitSeq /\ [][NextSeq]_vars

\* The runs in which every invocation returns to its loop (none panics under
\* main).  The runtime keeps polling every task that can run, and main runs
\* whenever its await is ready: a run does not stop while a step is possible.
NextLive ==
    \/ Spawn
    \/ \E u \in Units : ParIterate(u)
    \/ \E u \in Units : ParPanic(u)
    \/ Join
    \/ SeqStart
    \/ SeqFinish
    \/ SeqAdvance
    \/ Report

SpecLive == Init /\ [][NextLive]_vars /\ WF_vars(NextLive)

\* ------------------------------------------------------ the aggregator
\* a filter that lets every result through
Unfiltered(rs) == rs

\* `.filter(|r| r.success)`
Succeeded(rs) == LET Ok(r) == r.success IN SelectSeq(rs, Ok)

\* `.map(|r| r.duration_ms).sum::<u128>()`
RECURSIVE SumDuration(_)
SumDuration(rs) == IF rs = <<>> THEN 0 ELSE Head(rs).duration_ms + SumDuration(Tail(rs))

\* `.map(|r| r.duration_ms).min().unwrap_or(0)` and its max twin
RECURSIVE MinDuration(_)
MinDuration(rs) ==
    IF rs = <<>> THEN 0
    ELSE IF Tail(rs) = <<>> THEN Head(rs).duration_ms
    ELSE LET m == MinDuration(Tail(rs))
         IN  IF Head(rs).duration_ms <= m THEN Head(rs).duration_ms ELSE m

RECURSIVE MaxDuration(_)
MaxDuration(rs) ==
    IF rs = <<>> THEN 0
    ELSE IF Tail(rs) = <<>> THEN Head(rs).duration_ms
    ELSE LET m == MaxDuration(Tail(rs))
         IN  IF Head(rs).duration_ms >= m THEN Head(rs).duration_ms ELSE m

\* the fraction turned upside down
RateInverted(count, total) == [num |-> total, den |-> count]

\* `(count as f64 / total as f64) * 100.0`, kept as the exact fraction
\* count/total (the f64 rounding is not modelled)
Rate(count, total) == [num |-> count, den |-> total]

\* the colour thresholds on the percentage: == 100.0, >= 80.0, >= 50.0
RateColor(rate) ==
    IF rate.num = rate.den THEN "bright_green"
    ELSE IF rate.num * 100 >= 80 * rate.den THEN "green"
    ELSE IF rate.num * 100 >= 50 * rate.den THEN "yellow"
    ELSE "red"

\* a classifier whose bands leave out their upper ends
get_speed_rating_exclusive(duration_ms) ==
    IF duration_ms \in 0..99 THEN <<"Excellent", "bright_green">>
    ELSE IF duration_ms \in 100..299 THEN <<"Good", "green">>
    ELSE IF duration_ms \in 300..599 THEN <<"Average", "yellow">>
    ELSE IF duration_ms \in 600..999 THEN <<"Slow", "yellow">>
    ELSE <<"Very Slow", "red">>

get_speed_rating(duration_ms) ==
    IF duration_ms \in 0..100 THEN <<"Excellent", "bright_green">>
    ELSE IF duration_ms \in 101..300 THEN <<"Good", "green">>
    ELSE IF duration_ms \in 301..600 THEN <<"Average", "yellow">>
    ELSE IF duration_ms \in 601..1000 THEN <<"Slow", "yellow">>
    ELSE <<"Very Slow", "red">>

\* grouped_results: the results of one name, in the order of the Session
Group(results, name) == LET Named(r) == r.name = name IN SelectSeq(results, Named)
Keys(results) == {results[k].name : k \in DOMAIN results}

\* grouped_results.iter(): a HashMap with the default hasher yields its entries
\* in an order that depends on the per-process hash seed: any order of the keys
HashOrders(results) ==
    {o \in [1..Cardinality(Keys(results)) -> Keys(results)] :
        \A i, j \in DOMAIN o : i # j => o[i] # o[j]}

\* a comparator that gives a probe without success the average 0
SortAvgZero(test_results) ==
    IF test_results # <<>> /\ \E k \in DOMAIN test_results : test_results[k].success
    THEN [max |-> FALSE, v |-> SumDuration(Succeeded(test_results)) \div Len(Succeeded(test_results))]
    ELSE [max |-> FALSE, v |-> 0]

\* a_avg / b_avg of the comparator: the average of the succeeded results, or
\* u128::MAX when there is none.  No duration in milliseconds reaches
\* u128::MAX, so it is kept apart as `max` instead of as a number.
SortAvg(test_results) ==
    IF test_results # <<>> /\ \E k \in DOMAIN test_results : test_results[k].success
    THEN [max |-> FALSE, v |-> SumDuration(Succeeded(test_results)) \div Len(Succeeded(test_results))]
    ELSE [max |-> TRUE, v |-> 0]

\* a_avg.cmp(&b_avg) == Less
AvgLess(a, b) == ~a.max /\ (b.max \/ a.v < b.v)

\* sort_by is a stable sort: an entry goes before the first entry that is
\* greater, behind every entry it is equal to
RECURSIVE InsertEntry(_, _, _)
InsertEntry(sorted, name, results) ==
    IF sorted = <<>> THEN <<name>>
    ELSE IF AvgLess(SortAvg(Group(results, name)), SortAvg(Group(results, Head(sorted))))
         THEN <<name>> \o sorted
         ELSE <<Head(sorted)>> \o InsertEntry(Tail(sorted), name, results)

RECURSIVE SortTests(_, _, _)
SortTests(sorted, rest, results) ==
    IF rest = <<>> THEN sorted
    ELSE SortTests(InsertEntry(sorted, Head(rest), results), Tail(rest), results)

\* sorted_tests: the entries in hash order, then sorted by average
sorted_tests(results, order) == SortTests(<<>>, order, results)

\* the error lines of a probe: the errors of its failed results, in order
RECURSIVE Errors(_)
Errors(rs) ==
    IF rs = <<>> THEN <<>>
    ELSE IF ~Head(rs).success /\ Head(rs).error # None
         THEN <<Head(rs).error[1]>> \o Errors(Tail(rs))
         ELSE Errors(Tail(rs))

\* the body of `for (test_name, test_results) in sorted_tests`
ProbeSummary(test_name, test_results) ==
    LET success_count == Len(Succeeded(test_results))
        total_count == Len(test_results)
        success_rate == Rate(success_count, total_count)
        avg_duration ==
            IF success_count > 0
            THEN SumDuration(Succeeded(test_results)) \div success_count
            ELSE 0
    IN  [name |-> test_name,
         success_count |-> success_count,
         total_count |-> total_count,
         success_rate |-> success_rate,
         avg_duration |-> avg_duration,
         min_duration |-> MinDuration(Succeeded(test_results)),
         max_duration |-> MaxDuration(Succeeded(test_results)),
         status_color |-> RateColor(success_rate),
         speed_rating |-> get_speed_rating(avg_duration),
         timing_shown |-> success_count > 0,
         errors |-> Errors(test_results)]

\* an overall average taken as the mean of the averages of the probes
RECURSIVE SumOfAverages(_, _)
SumOfAverages(results, names) ==
    IF names = {} THEN 0
    ELSE LET n == CHOOSE x \in names : TRUE
             own == Succeeded(Group(results, n))
         IN  SumDuration(own) \div Len(own) + SumOfAverages(results, names \ {n})

OverallAvgOfMeans(results) ==
    LET with_success == {n \in Keys(results) : Succeeded(Group(results, n)) # <<>>}
    IN  IF with_success # {}
        THEN SumOfAverages(results, with_success) \div Cardinality(with_success)
        ELSE 0

\* overall_avg_duration
OverallAvg(results) ==
    IF Len(Succeeded(results)) > 0
    THEN SumDuration(Succeeded(results)) \div Len(Succeeded(results))
    ELSE 0

\* a summary without the early return for an empty Session
print_test_summary_no_return(results, order) ==
    LET ranked == sorted_tests(results, order)
    IN  [empty |-> FALSE,
         total_tests |-> Len(results),
         successful_tests |-> Len(Succeeded(results)),
         overall_success_rate |-> Rate(Len(Succeeded(results)), Len(results)),
         overall_avg_duration |-> OverallAvg(results),
         speed_rating |-> get_speed_rating(OverallAvg(results)),
         probes |-> [k \in DOMAIN ranked |-> ProbeSummary(ranked[k], Group(results, ranked[k]))]]

\* print_test_summary(results), with the hash order of this process
print_test_summary(results, order) ==
    IF results = <<>>
    THEN [empty |-> TRUE]
    ELSE LET total_tests == Len(results)
             successful_tests == Len(Succeeded(results))
             overall_avg_duration == OverallAvg(results)
             ranked == sorted_tests(results, order)
         IN  [empty |-> FALSE,
              total_tests |-> total_tests,
              successful_tests |-> successful_tests,
              overall_success_rate |-> Rate(successful_tests, total_tests),
              overall_avg_duration |-> overall_avg_duration,
              speed_rating |-> get_speed_rating(overall_avg_duration),
              probes |-> [k \in DOMAIN ranked |-> ProbeSummary(ranked[k], Group(results, ranked[k]))]]

\* print_test_summary applied to a Session given from outside
Summarize ==
    /\ summary = None
    /\ \E order \in HashOrders(all_results) :
        summary' = Some(print_test_summary(all_results, order))
    /\ UNCHANGED <<args, pc, cur, units, all_results, pb, history, deviations,
                   reports, exit_code, block_query>>

\* the Sessions the aggregator is explored on
MaxSession == 3
AggNames == {"getSlot", "getBlock", "getHealth"}
AggDurations == {100, 101, 400}
AggOutcomes ==
    {TestResult(n, TRUE, d, None) : n \in AggNames, d \in AggDurations}
    \cup {TestResult(n, FALSE, d, Some(<<e>>)) : n \in AggNames, d \in AggDurations, e \in RpcErrors}

SessionsOfLen(n) == [1..n -> AggOutcomes]

Sessions == UNION {SessionsOfLen(n) : n \in 0..MaxSession}

\* everything but the Session is as after the last Outcome of a run
InitOutside ==
    /\ args = [iterations |-> 0, parallel |-> FALSE, progress |-> FALSE]
    /\ pc = "summary"
    /\ cur = HealthUnit
    /\ units = [u \in Units |-> NewUnit]
    /\ pb = 0
    /\ history = [u \in Units |-> <<>>]
    /\ deviations = 0
    /\ reports = 0
    /\ exit_code = None
    /\ summary = None

InitAgg ==
    /\ InitOutside
    /\ all_results \in Sessions
    /\ block_query = None

SpecAgg == InitAgg /\ [][Summarize]_vars

\* the Sessions the classifier is explored on: one succeeded Outcome of every
\* duration up to MaxRated, which is then the probe's and the overall average
MaxRated == 1100

InitRating ==
    /\ InitOutside
    /\ \E d \in 0..MaxRated : all_results = <<TestResult("getSlot", TRUE, d, None)>>
    /\ block_query = None

SpecRating == InitRating /\ [][Summarize]_vars

\* ------------------------------------------------- the slot of getBlock
\* The slot number has no part in the Outcome of the block probe, so it is
\* left out of test_get_block above and followed here on its own.  A u64 is
\* kept at a width of SlotBits bits; u64::MAX is then SlotMax.
SlotBits == 8
SlotMax == 2 ^ SlotBits - 1

\* the subtraction of a release build without the clamp
wrapping_sub(a, b) == (a - b + 2 ^ SlotBits) % (2 ^ SlotBits)

\* u64::saturating_sub
saturating_sub(a, b) == IF a >= b THEN a - b ELSE 0

\* `let slot = slot_result.unwrap().saturating_sub(10);`
SlotMargin == 10
older_slot(current_slot) == saturating_sub(current_slot, SlotMargin)

\* client.get_block_with_config(slot, config) is issued for the older slot
GetBlockAtSlot ==
    /\ block_query # None
    /\ block_query[1].slot = None
    /\ block_query' = Some([block_query[1] EXCEPT !.slot = Some(older_slot(block_query[1].current_slot))])
    /\ UNCHANGED <<args, pc, cur, units, all_results, pb, history, deviations,
                   reports, exit_code, summary>>

\* the slot sub-call has answered Ok(current_slot), any u64
InitSlot ==
    /\ InitOutside
    /\ all_results = <<>>
    /\ \E current_slot \in 0..SlotMax :
        block_query = Some([current_slot |-> current_slot, slot |-> None])

SpecSlot == InitSlot /\ [][GetBlockAtSlot]_vars

\* ------------------------------------------------------------ properties
RECURSIVE SumLen(_, _)
SumLen(f, n) == IF n = 0 THEN 0 ELSE Len(f[n]) + SumLen(f, n - 1)

\* the invocations performed in the session so far
Performed == SumLen(history, HealthUnit)

\* the invocations in flight
InFlight == SumLen([u \in Units |-> units[u].flying], HealthUnit)

\* the Outcomes of probe u in a list, in the order of the list
OutcomesOf(list, u) ==
    LET Mine(o) == o.name = ProbeName(u) IN SelectSeq(list, Mine)

\* the Outcomes the invocations of probe u produced, in invocation order
Produced(u) == [k \in DOMAIN history[u] |-> history[u][k].outcome]

SessionOver == pc \in {"summary", "done"}

\* C1: when the session ends, the Session holds exactly one Outcome per probe
\* invocation that was performed, in every mode, also when a parallel unit
\* panicked after completing some iterations.
C1_SessionComplete == SessionOver => Len(all_results) = Performed

\* C2: in parallel mode, a unit whose join result is an error is turned into
\* exactly one failed Outcome of the Session carrying the name of its probe.
C2_PanicBecomesOneOutcome ==
    (args.parallel /\ SessionOver) =>
        \A u \in Units :
            units[u].st = "panicked" =>
                /\ Len(OutcomesOf(all_results, u)) = 1
                /\ ~OutcomesOf(all_results, u)[1].success

\* C3: in parallel mode, when a unit panics every other unit still runs all
\* its iterations and all its Outcomes are in the final Session.
C3_OthersCollected ==
    (args.parallel /\ SessionOver) =>
        \A u \in Units :
            units[u].st # "panicked" =>
                /\ Len(history[u]) = args.iterations
                /\ OutcomesOf(all_results, u) = Produced(u)

C3_Witness ==
    /\ args.parallel
    /\ pc = "summary"
    /\ \E u \in Units : units[u].st = "panicked" /\ u < HealthUnit
    /\ \E u \in Units : units[u].st # "panicked" /\ Len(OutcomesOf(all_results, u)) > 1

\* C4: in parallel mode every one of the 7 probes is dispatched as a unit of
\* its own before main waits, and the summary is never reached while a unit
\* has an iteration pending or in flight.
C4_Barrier ==
    args.parallel =>
        /\ pc = "joining" => \A u \in Units : units[u].st # "pending"
        /\ SessionOver =>
            \A u \in Units :
                /\ units[u].st \in {"spawned", "panicked"}
                /\ units[u].flying = <<>>
                /\ units[u].st = "spawned" => units[u].i = args.iterations

C4_Witness ==
    /\ args.parallel
    /\ pc = "summary"
    /\ \A u \in Units : units[u].st = "spawned" /\ Len(units[u].results) > 1

\* C5: in sequential mode at most one invocation is in flight, the batteries
\* run in registry order, each one complete before the next starts, and the
\* getHealth battery comes after the six of the registry.
Started(u) == history[u] # <<>> \/ units[u].flying # <<>>
UnitOf(name) == CHOOSE u \in Units : ProbeName(u) = name

C5_SequentialOrder ==
    ~args.parallel =>
        /\ InFlight <= 1
        /\ \A u, v \in Units :
            (u < v /\ Started(v)) =>
                /\ Len(history[u]) = args.iterations
                /\ units[u].flying = <<>>
        /\ \A k \in DOMAIN all_results :
            k > 1 => UnitOf(all_results[k - 1].name) <= UnitOf(all_results[k].name)

C5_Witness ==
    /\ ~args.parallel
    /\ cur = HealthUnit
    /\ units[cur].flying # <<>>
    /\ Len(history[cur]) > 0
    /\ \A u \in DOMAIN tests : Len(history[u]) > 1

\* C6: within one Runner the iterations are strictly sequential: never two
\* invocations in flight, invocation k+1 dispatched only when invocation k
\* has completed and its Outcome is appended, and the k-th Outcome of the
\* Runner's list is the result of the k-th invocation.
RunnerList(u) ==
    IF args.parallel \/ OwnList(u) THEN units[u].results ELSE OutcomesOf(all_results, u)

C6_RunnerSequential ==
    \A u \in Units :
        /\ Len(units[u].flying) <= 1
        /\ \A k \in DOMAIN history[u] : history[u][k].iter = k - 1
        /\ units[u].flying # <<>> => units[u].flying = <<Len(history[u])>>
        /\ units[u].st # "panicked" => RunnerList(u) = Produced(u)

C6_Witness ==
    \E u \in Units :
        /\ units[u].flying # <<>>
        /\ Head(units[u].flying) > 0
        /\ Len(RunnerList(u)) > 0

\* C7: no probe lets a failure escape: whatever the underlying call does, the
\* probe returns an Outcome, never an error, to the Runner.
C7_ProbeNeverErrs ==
    \A u \in Units : \A k \in DOMAIN history[u] : history[u][k].ret.ret = "Ok"

\* C8: a failed Outcome carries the time elapsed up to the failure; its
\* duration is zero only when the failure came before the timer was started.
C8_FailedDurationIsElapsed ==
    \A u \in Units : \A k \in DOMAIN history[u] :
        LET h == history[u][k]
        IN  ~h.outcome.success =>
                h.outcome.duration_ms = IF h.ret.timed THEN h.ret.elapsed ELSE 0

\* C9: every Outcome, on every path that creates one, has an error detail if
\* and only if it did not succeed.
WellFormed(o) == (o.error # None) <=> ~o.success

C9_ErrorIffFailed ==
    /\ \A k \in DOMAIN all_results : WellFormed(all_results[k])
    /\ \A u \in Units :
        /\ \A k \in DOMAIN units[u].results : WellFormed(units[u].results[k])
        /\ \A k \in DOMAIN history[u] : WellFormed(history[u][k].outcome)

C9_Witness ==
    /\ pc = "summary"
    /\ \E k \in DOMAIN all_results :
        /\ ~all_results[k].success
        /\ \E h \in {history[HealthUnit][j] : j \in DOMAIN history[HealthUnit]} :
            h.ret.ret = "Err" /\ h.outcome = all_results[k]

\* C10: when the slot sub-call of the block probe fails, the block fetch is
\* not issued, the timer is not started, and the probe returns one failed
\* Outcome named getBlock with duration 0 and the slot failure as its error;
\* when the sub-call succeeds, the duration is the time of the block fetch.
BlockUnit == CHOOSE u \in Units : ProbeName(u) = "getBlock"

C10_BlockShortCircuit ==
    \A k \in DOMAIN history[BlockUnit] :
        LET h == history[BlockUnit][k]
            slot == h.resp.calls[1]
        IN  IF ~slot.ok
            THEN /\ h.ret.issued = <<"getSlot">>
                 /\ ~h.ret.timed
                 /\ h.ret.ret = "Ok"
                 /\ h.outcome = TestResult("getBlock", FALSE, 0, Some(<<"Failed to get slot: ", slot.e>>))
            ELSE /\ h.ret.issued = <<"getSlot", "getBlock">>
                 /\ h.ret.timed
                 /\ h.outcome.name = "getBlock"
                 /\ h.outcome.duration_ms = h.resp.calls[2].ms

C10_Witness ==
    \E j, k \in DOMAIN history[BlockUnit] :
        /\ ~history[BlockUnit][j].resp.calls[1].ok
        /\ history[BlockUnit][k].outcome.success

\* C11: if every call returns, the session runs to completion whatever the
\* number of failed invocations: the report is printed exactly once, after the
\* last Outcome is collected, and the process then ends with exit status 0.
C11_Completes ==
    /\ <>[](pc = "done" /\ reports = 1 /\ exit_code = Some(0))
    /\ [](reports <= 1 /\ (exit_code # None => exit_code = Some(0)))
    /\ [][reports' # reports => (pc = "summary" /\ pc' = "done" /\ all_results' = all_results)]_vars
    /\ [][reports = 1 => all_results' = all_results]_vars

C11_Witness ==
    /\ pc = "done"
    /\ reports = 1
    /\ exit_code = Some(0)
    /\ \E k \in DOMAIN all_results : ~all_results[k].success

\* ---------------------------------------------------- aggregator claims
Printed == summary # None /\ ~summary[1].empty
Ranked == summary[1].probes

\* C12: the ranked list is in ascending order of the average duration of the
\* succeeded Outcomes, and a probe without a succeeded Outcome comes after
\* every probe with one, whatever the order of the Outcomes in the Session
C12_RankedByAverage ==
    Printed =>
        /\ {Ranked[k].name : k \in DOMAIN Ranked} = Keys(all_results)
        /\ Len(Ranked) = Cardinality(Keys(all_results))
        /\ \A i, j \in DOMAIN Ranked :
            i < j =>
                /\ Ranked[i].success_count = 0 => Ranked[j].success_count = 0
                /\ (Ranked[i].success_count > 0 /\ Ranked[j].success_count > 0)
                       => Ranked[i].avg_duration <= Ranked[j].avg_duration

\* a probe without success that is first in the registry and first in the
\* Session is printed behind a slower probe with a success
C12_Witness ==
    /\ Printed
    /\ Len(Ranked) = 2
    /\ Ranked[1].name = "getHealth" /\ Ranked[1].avg_duration = 400
    /\ Ranked[2].name = "getSlot" /\ Ranked[2].success_count = 0
    /\ all_results[1].name = "getSlot"

\* two printed probes the comparator finds Equal
Tied(a, b) ==
    \/ a.success_count = 0 /\ b.success_count = 0
    \/ a.success_count > 0 /\ b.success_count > 0 /\ a.avg_duration = b.avg_duration

\* C13: two probes with equal average duration, or both without a success,
\* are printed in the order of the registry
C13_TiesInRegistryOrder ==
    Printed =>
        \A i, j \in DOMAIN Ranked :
            (i < j /\ Tied(Ranked[i], Ranked[j]))
                => UnitOf(Ranked[i].name) < UnitOf(Ranked[j].name)

\* every reordering of a Session
Shuffles(results) ==
    {[k \in DOMAIN results |-> results[p[k]]] :
        p \in {q \in [DOMAIN results -> DOMAIN results] :
                  \A i, j \in DOMAIN results : i # j => q[i] # q[j]}}

\* the figures of a summary the claim speaks of, the probes in printed order
Figures(s) ==
    IF s.empty THEN s
    ELSE [overall_success_rate |-> s.overall_success_rate,
          overall_avg_duration |-> s.overall_avg_duration,
          probes |-> [k \in DOMAIN s.probes |->
                        [name |-> s.probes[k].name,
                         total_count |-> s.probes[k].total_count,
                         success_count |-> s.probes[k].success_count,
                         avg_duration |-> s.probes[k].avg_duration,
                         min_duration |-> s.probes[k].min_duration,
                         max_duration |-> s.probes[k].max_duration,
                         speed_rating |-> s.probes[k].speed_rating]]]

\* C14: summarising any reordering of the Session, in any run, gives the same
\* overall figures, the same figures for every probe and the same ranked order
C14_OrderIndependent ==
    summary # None =>
        \A shuffled \in Shuffles(all_results) :
            \A order \in HashOrders(shuffled) :
                Figures(print_test_summary(shuffled, order)) = Figures(summary[1])

\* the sum of the durations of the Outcomes at the given places of the Session
RECURSIVE DurationsAt(_)
DurationsAt(places) ==
    IF places = {} THEN 0
    ELSE LET k == CHOOSE x \in places : TRUE
         IN  all_results[k].duration_ms + DurationsAt(places \ {k})

SucceededAt == {k \in DOMAIN all_results : all_results[k].success}

\* C15: the overall average duration is the sum of the durations of all
\* succeeded Outcomes of the Session divided by their number, rounded down to
\* whole milliseconds, and 0 when no Outcome succeeded
C15_OverallFlatMean ==
    Printed =>
        LET avg == summary[1].overall_avg_duration
            n == Cardinality(SucceededAt)
        IN  /\ n = 0 => avg = 0
            /\ n > 0 => /\ avg * n <= DurationsAt(SucceededAt)
                        /\ DurationsAt(SucceededAt) < (avg + 1) * n

\* two successes of 100 ms for one probe and one of 400 ms for another: the
\* flat mean is 200 ms, the mean of the two averages would be 250 ms
C15_Witness ==
    /\ Printed
    /\ summary[1].overall_avg_duration = 200
    /\ Len(Ranked) = 2
    /\ Ranked[1].avg_duration = 100 /\ Ranked[1].success_count = 2
    /\ Ranked[2].avg_duration = 400 /\ Ranked[2].success_count = 1

\* the places of the succeeded Outcomes of one probe in the Session
SucceededOf(name) == {k \in SucceededAt : all_results[k].name = name}

\* C16: avg, min and max of a probe are taken over its succeeded Outcomes
\* only, and all three are 0 when it has none; one success of 400 ms and one
\* failure give the rate 1/2 and avg = min = max = 400
C16_StatsOverSucceeded ==
    Printed =>
        /\ \A i \in DOMAIN Ranked :
            LET p == Ranked[i]
                own == SucceededOf(p.name)
                n == Cardinality(own)
            IN  /\ n = 0 => (p.avg_duration = 0 /\ p.min_duration = 0 /\ p.max_duration = 0)
                /\ n > 0 =>
                    /\ p.avg_duration * n <= DurationsAt(own)
                    /\ DurationsAt(own) < (p.avg_duration + 1) * n
                    /\ \E k \in own : all_results[k].duration_ms = p.min_duration
                    /\ \A k \in own : all_results[k].duration_ms >= p.min_duration
                    /\ \E k \in own : all_results[k].duration_ms = p.max_duration
                    /\ \A k \in own : all_results[k].duration_ms <= p.max_duration
        /\ (/\ Len(all_results) = 2
            /\ Keys(all_results) = {"getBlock"}
            /\ \E k \in DOMAIN all_results :
                all_results[k].success /\ all_results[k].duration_ms = 400
            /\ \E k \in DOMAIN all_results : ~all_results[k].success)
           => /\ Ranked[1].success_rate.num * 2 = Ranked[1].success_rate.den
              /\ Ranked[1].avg_duration = 400
              /\ Ranked[1].min_duration = 400
              /\ Ranked[1].max_duration = 400
              /\ Ranked[1].speed_rating[1] = "Average"

\* getBlock succeeded once in 400 ms and failed once after 100 ms
C16_Witness ==
    /\ Printed
    /\ all_results[1] = TestResult("getBlock", TRUE, 400, None)
    /\ Len(all_results) = 2
    /\ all_results[2].name = "getBlock"
    /\ ~all_results[2].success /\ all_results[2].duration_ms = 100
    /\ Ranked[1].avg_duration = 400 /\ Ranked[1].min_duration = 400

\* the rating the bands of the claim give to a duration
InBand(label, d) ==
    /\ label = "Excellent" <=> (0 <= d /\ d <= 100)
    /\ label = "Good" <=> (101 <= d /\ d <= 300)
    /\ label = "Average" <=> (301 <= d /\ d <= 600)
    /\ label = "Slow" <=> (601 <= d /\ d <= 1000)
    /\ label = "Very Slow" <=> 1001 <= d
    /\ label \in {"Excellent", "Good", "Average", "Slow", "Very Slow"}

\* C17: every duration is rated by exactly the band it lies in (0..100
\* Excellent, 101..300 Good, 301..600 Average, 601..1000 Slow, above Very
\* Slow), for the average of a probe and for the overall average alike
C17_SpeedBands ==
    Printed =>
        /\ InBand(summary[1].speed_rating[1], summary[1].overall_avg_duration)
        /\ \A i \in DOMAIN Ranked :
            /\ InBand(Ranked[i].speed_rating[1], Ranked[i].avg_duration)
            /\ (Ranked[i].avg_duration = summary[1].overall_avg_duration)
                   => Ranked[i].speed_rating = summary[1].speed_rating
        /\ (Len(all_results) = 1 /\ all_results[1].success)
               => /\ summary[1].overall_avg_duration = all_results[1].duration_ms
                  /\ Ranked[1].avg_duration = all_results[1].duration_ms

\* an average of exactly 1000 ms is rated Slow, for the probe and overall
C17_Witness ==
    /\ Printed
    /\ all_results = <<TestResult("getSlot", TRUE, 1000, None)>>
    /\ summary[1].speed_rating[1] = "Slow"
    /\ Ranked[1].speed_rating[1] = "Slow"

\* C18: the success rate of a printed probe is its succeeded Outcomes over
\* its Outcomes, lies between 0 and 1, and is 1 exactly when every Outcome of
\* the probe succeeded
C18_SuccessRate ==
    Printed =>
        \A i \in DOMAIN Ranked :
            LET rate == Ranked[i].success_rate
                own == {k \in DOMAIN all_results : all_results[k].name = Ranked[i].name}
            IN  /\ rate.den = Cardinality(own) /\ rate.den > 0
                /\ rate.num = Cardinality(SucceededOf(Ranked[i].name))
                /\ 0 <= rate.num /\ rate.num <= rate.den
                /\ rate.num = rate.den <=> \A k \in own : all_results[k].success
                /\ Ranked[i].status_color = "bright_green" <=> \A k \in own : all_results[k].success

\* one probe at 1/2, another at 1/1
C18_Witness ==
    /\ Printed
    /\ \E i, j \in DOMAIN Ranked :
        /\ Ranked[i].success_rate = [num |-> 1, den |-> 2]
        /\ Ranked[i].status_color = "yellow"
        /\ Ranked[j].success_rate = [num |-> 1, den |-> 1]

\* ------------------------------------------------------ progress claims
\* ProgressBar::new(total_tests): tests.len() * iterations + iterations
total_tests == Len(tests) * args.iterations + args.iterations

NoPanic == \A u \in Units : units[u].st # "panicked"

\* C19: with the progress bar, the bar has advanced by one for every completed
\* invocation and only once its Outcome exists; it moves by single steps and
\* never back, stays within 7 * iterations under every interleaving of the
\* units, and stands at that total when the session ends without a panic
C19_ProgressTicks ==
    /\ [](args.progress => (pb = Performed /\ pb <= 7 * args.iterations))
    /\ [](total_tests = 7 * args.iterations)
    /\ [][args.progress =>
            /\ pb' >= pb /\ pb' <= pb + 1
            /\ pb' = pb + 1 <=> Performed' = Performed + 1
            /\ pb' <= Performed']_vars
    /\ []((args.progress /\ SessionOver /\ NoPanic) => pb = total_tests)

\* a parallel session of MaxIter iterations has ended without a panic and
\* the bar is full
C19_Witness ==
    /\ args.progress /\ args.parallel
    /\ args.iterations = MaxIter
    /\ pc = "done" /\ NoPanic
    /\ pb = 7 * MaxIter

\* C20: the block is requested at current_slot - 10 when current_slot is at
\* least 10 and at 0 below that; the slot never wraps around
C20_OlderSlotClamped ==
    (block_query # None /\ block_query[1].slot # None) =>
        LET current_slot == block_query[1].current_slot
            slot == block_query[1].slot[1]
        IN  /\ current_slot >= 10 => slot = current_slot - 10
            /\ current_slot < 10 => slot = 0
            /\ slot \in 0..SlotMax
            /\ slot <= current_slot

\* the block probe asks for slot 0 when the current slot is 3
C20_Witness ==
    /\ block_query # None
    /\ block_query[1].current_slot = 3
    /\ block_query[1].slot = Some(0)

\* ---------------------------------------------------- the four paths
\* the Outcome the results of the underlying calls of one invocation lead
\* to, whatever the path
Expected(u, k) == MatchResult(ProbeName(u), test_fn(u, history[u][k].resp))

Invocations == {<<u, k>> \in Units \X (1..MaxIter) : k \in DOMAIN history[u]}

\* C21: with or without progress bar, sequentially or in parallel, a session
\* without a panic holds the same multiset of Outcomes: for every invocation
\* the Outcome its call results lead to, each as often as it was produced
C21_PathsEquivalent ==
    (SessionOver /\ NoPanic) =>
        /\ \A u \in Units : Len(history[u]) = args.iterations
        /\ Len(all_results) = Cardinality(Invocations)
        /\ \A o \in {all_results[k] : k \in DOMAIN all_results}
                    \cup {Expected(i[1], i[2]) : i \in Invocations} :
            Cardinality({k \in DOMAIN all_results : all_results[k] = o})
                = Cardinality({i \in Invocations : Expected(i[1], i[2]) = o})

\* a parallel session without progress bar has ended, one of its Outcomes
\* made from an error that escaped the health probe
C21_Witness ==
    /\ pc = "done" /\ NoPanic
    /\ args.parallel /\ ~args.progress
    /\ args.iterations = MaxIter
    /\ \E k \in DOMAIN history[HealthUnit] : history[HealthUnit][k].ret.ret = "Err"
    /\ \E k \in DOMAIN all_results : ~all_results[k].success

\* ------------------------------------------------- the parallel Session
\* the Outcomes of the units 1..n that returned, unit after unit in the
\* order of dispatch, each unit's in the order of its invocations
RECURSIVE InDispatchOrder(_)
InDispatchOrder(n) ==
    IF n = 0 THEN <<>>
    ELSE InDispatchOrder(n - 1) \o (IF units[n].st = "panicked" THEN <<>> ELSE Produced(n))

\* C22: in parallel mode the Session is empty until the barrier has passed
\* and is then the units' lists one after the other in dispatch order,
\* registry first and getHealth last, however the units interleaved; the
\* Outcomes of a probe are contiguous, and without a panic the names follow
\* each other as in sequential mode
C22_DispatchOrder ==
    args.parallel =>
        /\ ~SessionOver => all_results = <<>>
        /\ SessionOver =>
            /\ all_results = InDispatchOrder(HealthUnit)
            /\ \A k \in DOMAIN all_results :
                k > 1 => UnitOf(all_results[k - 1].name) <= UnitOf(all_results[k].name)
            /\ NoPanic =>
                /\ Len(all_results) = HealthUnit * args.iterations
                /\ \A k \in DOMAIN all_results :
                    all_results[k].name = ProbeName(((k - 1) \div args.iterations) + 1)

\* a parallel session of MaxIter iterations is assembled: the first Outcomes
\* are the first registry probe's, the last are getHealth's
C22_Witness ==
    /\ args.parallel /\ pc = "summary" /\ NoPanic
    /\ args.iterations = MaxIter
    /\ all_results[1].name = ProbeName(1)
    /\ all_results[MaxIter].name = ProbeName(1)
    /\ all_results[MaxIter + 1].name = ProbeName(2)
    /\ all_results[Len(all_results)].name = "getHealth"

\* ------------------------------------------------------ no iterations
\* what print_test_summary(&all_results) prints in this state, for every
\* hash order the process may have
Summaries == {print_test_summary(all_results, order) : order \in HashOrders(all_results)}

\* C23: with iterations = 0 no probe is ever invoked in any mode, the
\* Session stays empty, the summary of that Session is the empty-session
\* message alone, with no rate or average computed, and the run ends with
\* the report printed and exit status 0
C23_ZeroIterations ==
    /\ [](args.iterations = 0 =>
            /\ Performed = 0 /\ InFlight = 0 /\ pb = 0
            /\ all_results = <<>>
            /\ \A u \in Units : units[u].results = <<>> /\ units[u].st # "panicked"
            /\ Summaries = {[empty |-> TRUE]}
            /\ exit_code \in {None, Some(0)})
    /\ (args.iterations = 0) ~> (pc = "done" /\ reports = 1 /\ exit_code = Some(0))

\* a parallel session of no iterations has ended
C23_Witness ==
    /\ args.iterations = 0 /\ args.parallel
    /\ pc = "done" /\ reports = 1
    /\ all_results = <<>>
    /\ exit_code = Some(0)
    /\ \A u \in Units : units[u].st = "spawned"

====
